---- MODULE Spec2Model ----
(***************************************************************************)
(* StudyAPI: the review / user / bookmark services over the document       *)
(* store.  Every request runs in a handler slot p; every `await` on the    *)
(* store is one step, so requests of different slots interleave between    *)
(* their store calls.  A serial execution is one that uses a single slot.  *)
(* Identifiers are ObjectIds assigned by the store: fresh, never reused;   *)
(* an insert_one and the find_one that reads the fresh _id back are one    *)
(* step (no other request can name the _id before it is returned).         *)
(* req[p] is the request in flight in slot p with its arguments and       *)
(* locals; response is the last value a service method returned or raised. *)
(* datetime.utcnow() timestamps are not part of the state: an update_one   *)
(* that matches a document always reports modified_count = 1.              *)
(* available tells whether the store answers; a store call made while it   *)
(* does not raises.  Only store_fails / store_recovers change it, and the  *)
(* specifications that leave them out run against a store that stays up.  *)
(* The ObjectId() a photo gets is a fresh counter value like the _ids.     *)
(* A rating field that an update has set to None holds NullRating, which   *)
(* is no number a rating can be; Cafe / Review.model_validate raise on it. *)
(***************************************************************************)
EXTENDS Integers, FiniteSets, Sequences, TLC

\* ---- bounds ----
NumProcs == 2
MaxCafes == 1
MaxReviews == 2
MaxUsers == 2
MaxBookmarks == 2
MaxPhotos == 2

Procs == 1..NumProcs
SerialProcs == {1}
CafeIds == 1..MaxCafes
ReviewIds == 1..MaxReviews
UserIds == 1..MaxUsers
BookmarkIds == 1..MaxBookmarks
PhotoIds == 1..MaxPhotos

\* ---- input domains ----
NoId == 0
NoRating == 0 - 1
NullRating == 0 - 2
NoName == ""
OverallRatings == {2, 4}
AverageRatings == {1, 3}
Names == {"Alice", "Bob"}
Passwords == {"pw1", "pw2"}
LoginNames == Names \cup {"alice"}
CafeNames == {"Brew", "Nook"}
Queries == {"", " ", "o", "RO", ".", "a.a"}
Longitudes == {0 - 181, 0 - 180, 0, 180, 181}
Latitudes == {0 - 91, 0 - 90, 0, 90, 91}
MaxDistances == {0 - 1, 0, 1200000, 20100000}
Amenities == {<< >>, <<"wifi">>, <<"wifi", "outlets">>, <<"outlets", "wifi">>, <<"quiet">>}
MinRatings == {0, 1, 3, 5, 6}
Urls == {"a.jpg", "b.jpg"}
Captions == {NoName, "Desk"}

VARIABLES cafes, reviews, users, bookmarks,
          nextCafeId, nextReviewId, nextUserId, nextBookmarkId, nextPhotoId,
          req, response, seen, available

vars == <<cafes, reviews, users, bookmarks,
          nextCafeId, nextReviewId, nextUserId, nextBookmarkId, nextPhotoId,
          req, response, seen, available>>

ids == <<nextCafeId, nextReviewId, nextUserId, nextBookmarkId, nextPhotoId>>

\* ---- the document store ----
insert_one(coll, id, doc) ==
    [x \in (DOMAIN coll) \cup {id} |-> IF x = id THEN doc ELSE coll[x]]

delete_one(coll, id) ==
    [x \in (DOMAIN coll) \ {id} |-> coll[x]]

\* a delete_one that reports a deleted document whatever it found
deleted_count_one(coll, id) == 1

\* result.deleted_count of delete_one({"_id": ObjectId(id)})
deleted_count(coll, id) == IF id \in DOMAIN coll THEN 1 ELSE 0

\* values read from the store: null (None), a field that is not in the
\* document, a string, a document
Null == [type |-> "null"]
Missing == [type |-> "missing"]
String(v) == [type |-> "string", value |-> v]
Object(doc) == [type |-> "object", value |-> doc]

\* a find_one that ignores its filter
find_one_any(coll, id) ==
    IF DOMAIN coll # {} THEN Object(coll[CHOOSE x \in DOMAIN coll : TRUE]) ELSE Null

\* await self.collection.find_one({"_id": ObjectId(id)})
find_one(coll, id) == IF id \in DOMAIN coll THEN Object(coll[id]) ELSE Null

\* PhotoCreate: url and caption; caption = NoName: the caption is None
PhotoCreate(url, caption) == [url |-> url, caption |-> caption]

NoPhoto == PhotoCreate(NoName, NoName)

\* a request in flight: its method, the store call it is about to make, its
\* arguments and locals
Request(op, pc, id, user_id, cafe_id, rating, name, password) ==
    [op |-> op, pc |-> pc, id |-> id, user_id |-> user_id, cafe_id |-> cafe_id,
     rating |-> rating, name |-> name, password |-> password,
     photo_data |-> NoPhoto]

NoRequest == Request("none", "idle", NoId, NoId, NoId, NoRating, NoName, NoName)

Ready(p) == req[p].pc = "idle"

InFlight(op) == Cardinality({q \in Procs : req[q].op = op})

\* the method returns (or raises) result
Return(p, op, id, result) ==
    /\ req' = [req EXCEPT ![p] = NoRequest]
    /\ response' = [op |-> op, result |-> result]

\* the method goes on to its next store call
Goto(p, r) ==
    /\ req' = [req EXCEPT ![p] = r]
    /\ UNCHANGED response

\* ---- reviews of a cafe: {"$match": {"study_spot_id": cafe_id}} ----
ReviewsOf(rs, cafe_id) == {r \in DOMAIN rs : rs[r].study_spot_id = cafe_id}

RECURSIVE SumRatings(_, _)
SumRatings(rs, S) ==
    IF S = {} THEN 0
    ELSE LET r == CHOOSE x \in S : TRUE
         IN rs[r].overall_rating + SumRatings(rs, S \ {r})

\* the review set of a cafe as <<sum of overall_rating, review_count>>
Snapshot(rs, cafe_id) ==
    <<SumRatings(rs, ReviewsOf(rs, cafe_id)), Cardinality(ReviewsOf(rs, cafe_id))>>

\* history of the review sets each cafe has had; kept only by the
\* specification that starts it (InitSnapshots), empty otherwise
Record(rs) ==
    [c \in CafeIds |-> IF seen[c] = {} THEN {} ELSE seen[c] \cup {Snapshot(rs, c)}]

Init ==
    /\ cafes = << >>
    /\ reviews = << >>
    /\ users = << >>
    /\ bookmarks = << >>
    /\ nextCafeId = 1
    /\ nextReviewId = 1
    /\ nextUserId = 1
    /\ nextBookmarkId = 1
    /\ nextPhotoId = 1
    /\ req = [p \in Procs |-> NoRequest]
    /\ response = [op |-> "none", result |-> "none"]
    /\ seen = [c \in CafeIds |-> {}]
    /\ available = TRUE

\* raise HTTPException(status_code=..., detail=...) / a returned list
HTTPException(status_code, detail) == [status_code |-> status_code, detail |-> detail]
Ok(body) == [status_code |-> 200, body |-> body]

\* pydantic's error for a document that does not fit the model
ValidationError == "ValidationError"

\* an exception that leaves the service method
Raised(exception) == [type |-> "raised", value |-> exception]

\* Cafe.model_validate(cafe): average_rating is a conint, not Optional
model_validate_cafe(cafe) == cafe.average_rating # NullRating

\* Review.model_validate(review): overall_rating is a confloat, not Optional
model_validate_review(review) == review.overall_rating # NullRating

\* CafeRepository.get_cafe on a stored cafe that does not validate
get_cafe_raises(cs, cafe_id) ==
    cafe_id \in DOMAIN cs /\ ~model_validate_cafe(cs[cafe_id])

\* ReviewRepository.get_review on a stored review that does not validate
get_review_raises(rs, review_id) ==
    review_id \in DOMAIN rs /\ ~model_validate_review(rs[review_id])

\* return [Cafe.model_validate(cafe) for cafe in cafes]
model_validate_all(cs, found) ==
    IF \A i \in DOMAIN found : model_validate_cafe(cs[found[i]])
    THEN Ok(found)
    ELSE Raised(ValidationError)

\* ---- the store's availability ----
\* what a store call raises while the store does not answer
StoreError == "PyMongoError"

store_fails ==
    /\ available
    /\ available' = FALSE
    /\ UNCHANGED <<cafes, reviews, users, bookmarks, ids, req, response, seen>>

store_recovers ==
    /\ ~available
    /\ available' = TRUE
    /\ UNCHANGED <<cafes, reviews, users, bookmarks, ids, req, response, seen>>

\* ---- CafeService / CafeRepository ----
\* the fields of a cafe document that the modelled operations read or write;
\* coordinates are <<longitude, latitude>> in degrees, amenities the set of
\* the entries of the amenities array
CafeCreate(name, street, city, coordinates, amenities, average_rating) ==
    [name |-> name, address |-> [street |-> street, city |-> city],
     location |-> [coordinates |-> coordinates], amenities |-> amenities,
     average_rating |-> average_rating]

\* the cafe the specifications about reviews, users and bookmarks register
TheCoffeeCorner(average_rating) ==
    CafeCreate("Brew", "Elm", "Rome", <<0, 0>>, {"wifi"}, average_rating)

\* a cafe whose latitude is out of range
Misplaced == CafeCreate("Nook", "Oak", "Oslo", <<0, 91>>, {}, 1)

\* the ranges without their end points
validate_coordinates_open(coordinates) ==
    /\ Len(coordinates) = 2
    /\ 0 - 180 < coordinates[1]
    /\ coordinates[1] < 180
    /\ 0 - 90 < coordinates[2]
    /\ coordinates[2] < 90

validate_coordinates(coordinates) ==
    /\ Len(coordinates) = 2
    /\ 0 - 180 <= coordinates[1]
    /\ coordinates[1] <= 180
    /\ 0 - 90 <= coordinates[2]
    /\ coordinates[2] <= 90

\* cafe = await self.collection.find_one({"_id": ObjectId(cafe_id)})
get_cafe_stub(cs, cafe_id) == TRUE

get_cafe(cs, cafe_id) == cafe_id \in DOMAIN cs

\* CafeService.get_cafe: the cafe, or None
CafeService_get_cafe(p, cafe_id) ==
    /\ Ready(p)
    /\ Return(p, "get_cafe", cafe_id,
              IF get_cafe_raises(cafes, cafe_id) THEN Raised(ValidationError)
              ELSE find_one(cafes, cafe_id))
    /\ UNCHANGED <<cafes, reviews, users, bookmarks, ids, seen, available>>

create_cafe(p, cafe_data) ==
    /\ Ready(p)
    /\ nextCafeId <= MaxCafes
    /\ IF validate_coordinates(cafe_data.location.coordinates)
       THEN /\ cafes' = insert_one(cafes, nextCafeId, cafe_data)
            /\ nextCafeId' = nextCafeId + 1
            /\ Return(p, "create_cafe", nextCafeId, "created")
       ELSE /\ UNCHANGED <<cafes, nextCafeId>>
            /\ Return(p, "create_cafe", NoId, "400 Invalid coordinates provided")
    /\ UNCHANGED <<reviews, users, bookmarks, nextReviewId, nextUserId,
                   nextBookmarkId, nextPhotoId, seen, available>>

\* existing_cafe = await self.get_cafe(cafe_id)
\* name = NoName / average_rating = NoRating: the field is unset in cafe_data;
\* average_rating = NullRating: the field is set to None
update_cafe(p, cafe_id, name, average_rating) ==
    /\ Ready(p)
    /\ IF get_cafe_raises(cafes, cafe_id)
       THEN Return(p, "update_cafe", cafe_id, ValidationError)
       ELSE IF get_cafe(cafes, cafe_id)
       THEN Goto(p, Request("update_cafe", "write", cafe_id, NoId, cafe_id,
                            average_rating, name, NoName))
       ELSE Return(p, "update_cafe", cafe_id, "None")
    /\ UNCHANGED <<cafes, reviews, users, bookmarks, ids, seen, available>>

\* updated_cafe = await self.repository.update_cafe(cafe_id, update_data)
update_cafe_write(p) ==
    /\ req[p].op = "update_cafe"
    /\ req[p].pc = "write"
    /\ LET r == req[p]
           matched == r.id \in DOMAIN cafes
       IN /\ cafes' = IF matched
                      THEN [cafes EXCEPT
                              ![r.id].name = IF r.name # NoName THEN r.name ELSE @,
                              ![r.id].average_rating =
                                  IF r.rating # NoRating THEN r.rating ELSE @]
                      ELSE cafes
          /\ Return(p, r.op, r.id,
                    IF ~matched THEN "None"
                    ELSE IF get_cafe_raises(cafes', r.id) THEN ValidationError
                    ELSE "updated")
    /\ UNCHANGED <<reviews, users, bookmarks, ids, seen, available>>

\* a delete_cafe that also removes the reviews and bookmarks of the cafe
delete_cafe_cascade(p, cafe_id) ==
    /\ Ready(p)
    /\ cafes' = delete_one(cafes, cafe_id)
    /\ reviews' = [r \in {x \in DOMAIN reviews : reviews[x].study_spot_id # cafe_id}
                      |-> reviews[r]]
    /\ bookmarks' = [b \in {x \in DOMAIN bookmarks : bookmarks[x].cafe_id # cafe_id}
                        |-> bookmarks[b]]
    /\ Return(p, "delete_cafe", cafe_id,
              IF cafe_id \in DOMAIN cafes THEN "True" ELSE "False")
    /\ UNCHANGED <<users, ids, seen, available>>

delete_cafe(p, cafe_id) ==
    /\ Ready(p)
    /\ cafes' = delete_one(cafes, cafe_id)
    /\ Return(p, "delete_cafe", cafe_id,
              IF cafe_id \in DOMAIN cafes THEN "True" ELSE "False")
    /\ UNCHANGED <<reviews, users, bookmarks, ids, seen, available>>

\* ---- CafeService / CafeRepository: the queries ----
\* a find() without a sort returns the documents in their natural order, the
\* order of the inserts
RECURSIVE natural_order(_)
natural_order(S) ==
    IF S = {} THEN << >>
    ELSE LET first == CHOOSE x \in S : \A y \in S : x <= y
         IN <<first>> \o natural_order(S \ {first})

\* the characters of the texts the modelled cafes and queries use
Chars(text) ==
    CASE text = "" -> << >>
      [] text = " " -> <<" ">>
      [] text = "." -> <<".">>
      [] text = "o" -> <<"o">>
      [] text = "RO" -> <<"R", "O">>
      [] text = "a.a" -> <<"a", ".", "a">>
      [] text = "Brew" -> <<"B", "r", "e", "w">>
      [] text = "Nook" -> <<"N", "o", "o", "k">>
      [] text = "Java" -> <<"J", "a", "v", "a">>
      [] text = "Elm" -> <<"E", "l", "m">>
      [] text = "Oak" -> <<"O", "a", "k">>
      [] text = "Rome" -> <<"R", "o", "m", "e">>
      [] text = "Oslo" -> <<"O", "s", "l", "o">>

\* query.strip(): what is left of the query without its leading and trailing
\* whitespace is empty when every character of it is whitespace
strip_is_empty(query) == \A i \in DOMAIN Chars(query) : Chars(query)[i] = " "

\* "$options": "i"
lower(c) ==
    CASE c = "B" -> "b" [] c = "E" -> "e" [] c = "J" -> "j" [] c = "N" -> "n"
      [] c = "O" -> "o" [] c = "R" -> "r" [] OTHER -> c

\* one character of the pattern against one of the text: "." matches any
\* character, a letter or space matches itself in either case
regex_char(pc, c) == pc = "." \/ lower(pc) = lower(c)

\* {"$regex": query, "$options": "i"}: the pattern matches somewhere in the text
regex(query, text) ==
    LET pat == Chars(query)
        txt == Chars(text)
    IN \E k \in 0..(Len(txt) - Len(pat)) :
          \A i \in 1..Len(pat) : regex_char(pat[i], txt[k + i])

\* CafeService.search_cafes / CafeRepository.search_cafes
search_cafes(p, query) ==
    /\ Ready(p)
    /\ IF strip_is_empty(query)
       THEN Return(p, "search_cafes", NoId,
                   HTTPException(400, "Search query cannot be empty"))
       ELSE Return(p, "search_cafes", NoId,
                   model_validate_all(cafes, natural_order({c \in DOMAIN cafes :
                         \/ regex(query, cafes[c].name)
                         \/ regex(query, cafes[c].address.city)
                         \/ regex(query, cafes[c].address.street)})))
    /\ UNCHANGED <<cafes, reviews, users, bookmarks, ids, seen, available>>

\* the angle in degrees between two points of the sphere, each on the
\* equator or at a pole
central_angle(a, b) ==
    IF a[2] = 0 /\ b[2] = 0
    THEN LET d == IF a[1] >= b[1] THEN a[1] - b[1] ELSE b[1] - a[1]
         IN IF d <= 180 THEN d ELSE 360 - d
    ELSE IF a[2] = 0 \/ b[2] = 0 THEN 90
    ELSE IF a[2] = b[2] THEN 0 ELSE 180

\* metres of a degree of a great circle
MetersPerDegree == 111319

\* the distance "$near" measures on the 2dsphere index
distance(a, b) == central_angle(a, b) * MetersPerDegree

\* "$near" without "$maxDistance"
near_anywhere(cs, coordinates, max_distance) == DOMAIN cs

\* {"$near": {"$geometry": ..., "$maxDistance": max_distance}}: the documents
\* within max_distance
near(cs, coordinates, max_distance) ==
    {c \in DOMAIN cs : distance(cs[c].location.coordinates, coordinates) <= max_distance}

\* "$near" sorts the documents from nearest to farthest; documents at the
\* same distance come in either order
nearest_first(cs, coordinates, S) ==
    {s \in [1..Cardinality(S) -> S] :
        /\ \A i, j \in DOMAIN s : i # j => s[i] # s[j]
        /\ \A i, j \in DOMAIN s :
              i < j => distance(cs[s[i]].location.coordinates, coordinates)
                         <= distance(cs[s[j]].location.coordinates, coordinates)}

\* CafeService.find_nearby_cafes / CafeRepository.find_nearby_cafes
find_nearby_cafes(p, longitude, latitude, max_distance) ==
    /\ Ready(p)
    /\ IF ~validate_coordinates(<<longitude, latitude>>)
       THEN Return(p, "find_nearby_cafes", NoId,
                   HTTPException(400, "Invalid coordinates provided"))
       ELSE IF max_distance <= 0
       THEN Return(p, "find_nearby_cafes", NoId,
                   HTTPException(400, "Max distance must be greater than 0"))
       ELSE \E s \in nearest_first(cafes, <<longitude, latitude>>,
                                   near(cafes, <<longitude, latitude>>, max_distance)) :
               Return(p, "find_nearby_cafes", NoId, model_validate_all(cafes, s))
    /\ UNCHANGED <<cafes, reviews, users, bookmarks, ids, seen, available>>

Range(s) == {s[i] : i \in DOMAIN s}

\* {"amenities": {"$in": amenities}}
in_(array, amenities) == Range(amenities) \cap array # {}

\* {"amenities": {"$all": amenities}}: the array has every listed element
all_(array, amenities) == Range(amenities) \subseteq array

\* CafeService.find_cafes_by_amenities / CafeRepository.find_cafes_by_amenities
find_cafes_by_amenities(p, amenities) ==
    /\ Ready(p)
    /\ IF amenities = << >>
       THEN Return(p, "find_cafes_by_amenities", NoId,
                   HTTPException(400, "At least one amenity must be specified"))
       ELSE Return(p, "find_cafes_by_amenities", NoId,
                   model_validate_all(cafes, natural_order({c \in DOMAIN cafes :
                                       all_(cafes[c].amenities, amenities)})))
    /\ UNCHANGED <<cafes, reviews, users, bookmarks, ids, seen, available>>

\* {"average_rating": {"$gt": min_rating}}
gt(average_rating, min_rating) == average_rating > min_rating

\* {"average_rating": {"$gte": min_rating}}
gte(average_rating, min_rating) == average_rating >= min_rating

\* CafeService.find_cafes_by_rating / CafeRepository.find_cafes_by_rating
find_cafes_by_rating(p, min_rating) ==
    /\ Ready(p)
    /\ IF ~(1 <= min_rating /\ min_rating <= 5)
       THEN Return(p, "find_cafes_by_rating", NoId,
                   HTTPException(400, "Rating must be between 1 and 5"))
       ELSE Return(p, "find_cafes_by_rating", NoId,
                   model_validate_all(cafes, natural_order({c \in DOMAIN cafes :
                                       gte(cafes[c].average_rating, min_rating)})))
    /\ UNCHANGED <<cafes, reviews, users, bookmarks, ids, seen, available>>

\* {"$unwind": "$photos"} and {"$project": {...}} over the matched reviews in
\* their order: one document for each element of each photos array, in the
\* order of the array; a review whose array is empty yields none
RECURSIVE unwind_photos(_, _)
unwind_photos(rs, matched) ==
    IF matched = << >> THEN << >>
    ELSE LET review_id == Head(matched)
             review == rs[review_id]
         IN [k \in DOMAIN review.photos |->
                [id |-> review.photos[k]._id, url |-> review.photos[k].url,
                 caption |-> review.photos[k].caption, review_id |-> review_id,
                 user_id |-> review.user_id]]
            \o unwind_photos(rs, Tail(matched))

\* CafeRepository.get_cafe_photos: the pipeline has no "$sort"; the reviews of
\* {"$match": {"study_spot_id": ObjectId(cafe_id)}} come in natural order
get_cafe_photos(p, cafe_id) ==
    /\ Ready(p)
    /\ Return(p, "get_cafe_photos", cafe_id,
              Ok(unwind_photos(reviews,
                               natural_order({r \in DOMAIN reviews :
                                                reviews[r].study_spot_id = cafe_id}))))
    /\ UNCHANGED <<cafes, reviews, users, bookmarks, ids, seen, available>>

\* review_service.py calls self.cafe_service.update_cafe_average_rating, which
\* CafeService does not define: the attribute lookup raises AttributeError
\* before any store call, and the cafes are left as they were.
update_cafe_average_rating(cs, rs, cafe_id) ==
    [raised |-> TRUE, cafes |-> cs]

\* try: ... except Exception as e: logger.error(...)   (the failure is swallowed)
reraise_Exception(raised, value) ==
    IF raised THEN "AttributeError" ELSE value

except_Exception(raised, value) == value

\* ---- ReviewService / ReviewRepository ----
\* the fields of a review document that the modelled operations read or
\* write; review_dict['photos'] = []
ReviewCreate(study_spot_id, user_id, overall_rating) ==
    [study_spot_id |-> study_spot_id, user_id |-> user_id,
     overall_rating |-> overall_rating, photos |-> << >>]

\* created_review = await self.repository.create_review(review_data)
create_review(p, study_spot_id, user_id, overall_rating) ==
    /\ Ready(p)
    /\ nextReviewId <= MaxReviews
    /\ reviews' = insert_one(reviews, nextReviewId,
                     ReviewCreate(study_spot_id, user_id, overall_rating))
    /\ nextReviewId' = nextReviewId + 1
    /\ seen' = Record(reviews')
    /\ Goto(p, Request("create_review", "recompute", nextReviewId, user_id,
                       study_spot_id, overall_rating, NoName, NoName))
    /\ UNCHANGED <<cafes, users, bookmarks, nextCafeId, nextUserId, nextBookmarkId,
                   nextPhotoId, available>>

\* ReviewService.get_review: the review, or None
ReviewService_get_review(p, review_id) ==
    /\ Ready(p)
    /\ Return(p, "get_review", review_id,
              IF get_review_raises(reviews, review_id) THEN Raised(ValidationError)
              ELSE find_one(reviews, review_id))
    /\ UNCHANGED <<cafes, reviews, users, bookmarks, ids, seen, available>>

\* existing_review = await self.get_review(review_id)
\* overall_rating = NoRating: the key is not in review_data;
\* overall_rating = NullRating: the key is in review_data with the value None
update_review(p, review_id, overall_rating) ==
    /\ Ready(p)
    /\ IF get_review_raises(reviews, review_id)
       THEN Return(p, "update_review", review_id, ValidationError)
       ELSE IF review_id \in DOMAIN reviews
       THEN Goto(p, Request("update_review", "write", review_id, NoId,
                            reviews[review_id].study_spot_id, overall_rating,
                            NoName, NoName))
       ELSE Return(p, "update_review", review_id, "None")
    /\ UNCHANGED <<cafes, reviews, users, bookmarks, ids, seen, available>>

\* "overall_rating" in review_data
in_review_data(overall_rating) == overall_rating # NoRating

\* updated_review = await self.repository.update_review(review_id, review_data)
update_review_write(p) ==
    /\ req[p].op = "update_review"
    /\ req[p].pc = "write"
    /\ LET r == req[p]
           matched == r.id \in DOMAIN reviews
       IN /\ reviews' = IF matched /\ r.rating # NoRating
                        THEN [reviews EXCEPT ![r.id].overall_rating = r.rating]
                        ELSE reviews
          /\ seen' = Record(reviews')
          /\ IF ~matched
             THEN Return(p, r.op, r.id, "None")
             ELSE IF get_review_raises(reviews', r.id)
                  THEN Return(p, r.op, r.id, ValidationError)
                  ELSE IF in_review_data(r.rating)
                       THEN Goto(p, [r EXCEPT !.pc = "recompute"])
                       ELSE Return(p, r.op, r.id, "updated")
    /\ UNCHANGED <<cafes, users, bookmarks, ids, available>>

\* review_to_delete = await self.get_review(review_id)
delete_review(p, review_id) ==
    /\ Ready(p)
    /\ IF get_review_raises(reviews, review_id)
       THEN Return(p, "delete_review", review_id, ValidationError)
       ELSE IF review_id \in DOMAIN reviews
       THEN Goto(p, Request("delete_review", "write", review_id, NoId,
                            reviews[review_id].study_spot_id, NoRating,
                            NoName, NoName))
       ELSE Return(p, "delete_review", review_id, "False")
    /\ UNCHANGED <<cafes, reviews, users, bookmarks, ids, seen, available>>

\* deleted = await self.repository.delete_review(review_id)
delete_review_write(p) ==
    /\ req[p].op = "delete_review"
    /\ req[p].pc = "write"
    /\ LET r == req[p]
           deleted == deleted_count(reviews, r.id) > 0
       IN /\ reviews' = delete_one(reviews, r.id)
          /\ seen' = Record(reviews')
          /\ IF deleted
             THEN Goto(p, [r EXCEPT !.pc = "recompute"])
             ELSE Return(p, r.op, r.id, "False")
    /\ UNCHANGED <<cafes, users, bookmarks, ids, available>>

\* what the review mutation returns after its store write
Returned(op) ==
    IF op = "create_review" THEN "created"
    ELSE IF op = "update_review" THEN "updated"
    ELSE "True"

\* await self.cafe_service.update_cafe_average_rating(study_spot_id), in its
\* try block, then the return
recompute(p) ==
    /\ req[p].pc = "recompute"
    /\ LET r == req[p]
           out == update_cafe_average_rating(cafes, reviews, r.cafe_id)
       IN /\ cafes' = out.cafes
          /\ Return(p, r.op, r.id, except_Exception(out.raised, Returned(r.op)))
    /\ UNCHANGED <<reviews, users, bookmarks, ids, seen, available>>

\* {"$push": {"photos": photo_dict}} at the front of the array
push_front(array, photo_dict) == <<photo_dict>> \o array

\* {"$push": {"photos": photo_dict}}: the element goes to the end of the array
push(array, photo_dict) == Append(array, photo_dict)

\* ReviewService.add_photo: existing_review = await self.get_review(review_id)
add_photo(p, review_id, photo_data) ==
    /\ Ready(p)
    /\ nextPhotoId + InFlight("add_photo") <= MaxPhotos
    /\ IF get_review_raises(reviews, review_id)
       THEN Return(p, "add_photo", review_id, Raised(ValidationError))
       ELSE IF review_id \in DOMAIN reviews
       THEN Goto(p, [Request("add_photo", "push", review_id, NoId, NoId, NoRating,
                             NoName, NoName) EXCEPT !.photo_data = photo_data])
       ELSE Return(p, "add_photo", review_id, Null)
    /\ UNCHANGED <<cafes, reviews, users, bookmarks, ids, seen, available>>

\* ReviewRepository.add_photo: photo_dict["_id"] = ObjectId(), then
\* result = await self.collection.update_one(..., {"$push": ...})
add_photo_push(p) ==
    /\ req[p].op = "add_photo"
    /\ req[p].pc = "push"
    /\ LET r == req[p]
           matched == r.id \in DOMAIN reviews
           photo_dict == [_id |-> nextPhotoId, url |-> r.photo_data.url,
                          caption |-> r.photo_data.caption]
       IN /\ reviews' = IF matched
                        THEN [reviews EXCEPT ![r.id].photos = push(@, photo_dict)]
                        ELSE reviews
          /\ nextPhotoId' = nextPhotoId + 1
          /\ IF matched
             THEN Goto(p, [r EXCEPT !.pc = "get_review"])
             ELSE Return(p, r.op, r.id, Null)
    /\ UNCHANGED <<cafes, users, bookmarks, nextCafeId, nextReviewId, nextUserId,
                   nextBookmarkId, seen, available>>

\* return await self.get_review(review_id)
add_photo_get_review(p) ==
    /\ req[p].op = "add_photo"
    /\ req[p].pc = "get_review"
    /\ Return(p, "add_photo", req[p].id,
              IF get_review_raises(reviews, req[p].id) THEN Raised(ValidationError)
              ELSE find_one(reviews, req[p].id))
    /\ UNCHANGED <<cafes, reviews, users, bookmarks, ids, seen, available>>

\* ---- UserService / UserRepository ----
\* UserRepository.get_user: find_one({"_id": ObjectId(user_id)}) in
\* try ... except Exception: return None
get_user_stub(us, user_id) == TRUE

get_user(us, user_id) == available /\ user_id \in DOMAIN us

\* UserService.get_user: the user without the password, or None
UserService_get_user(p, user_id) ==
    /\ Ready(p)
    /\ Return(p, "get_user", user_id,
              IF get_user(users, user_id) THEN users[user_id].name ELSE "None")
    /\ UNCHANGED <<cafes, reviews, users, bookmarks, ids, seen, available>>

\* UserRepository.get_user_by_name: find_one({"name": name}), the first
\* document of that name in natural order, or None
get_user_by_name(us, name) ==
    LET named == {u \in DOMAIN us : us[u].name = name}
    IN IF named = {} THEN Null
       ELSE LET u == CHOOSE x \in named : \A y \in named : x <= y
            IN Object([_id |-> u, name |-> us[u].name, password |-> us[u].password])

\* a check that accepts any password
password_any(user, password) == user.type = "object"

\* if user and user.password == password
password_matches(user, password) ==
    user.type = "object" /\ user.value.password = password

\* UserService.authenticate_user: the user, or None
authenticate_user(p, name, password) ==
    /\ Ready(p)
    /\ Return(p, "authenticate_user", NoId,
              IF ~available THEN Raised(StoreError)
              ELSE IF password_matches(get_user_by_name(users, name), password)
              THEN get_user_by_name(users, name)
              ELSE Null)
    /\ UNCHANGED <<cafes, reviews, users, bookmarks, ids, seen, available>>

DuplicateName == "ValueError: User with this name already exists"

\* await self.collection.find_one({"name": name, "_id": {"$ne": excluding}})
find_one_by_name_none(us, name, excluding) == FALSE

find_one_by_name(us, name, excluding) ==
    \E u \in DOMAIN us : us[u].name = name /\ u # excluding

\* existing_user = await self.collection.find_one({"name": user_data.name})
create_user(p, name, password) ==
    /\ Ready(p)
    /\ nextUserId + InFlight("create_user") <= MaxUsers
    /\ IF ~available
       THEN Return(p, "create_user", NoId, StoreError)
       ELSE IF find_one_by_name(users, name, NoId)
       THEN Return(p, "create_user", NoId, DuplicateName)
       ELSE Goto(p, Request("create_user", "insert", NoId, NoId, NoId, NoRating,
                            name, password))
    /\ UNCHANGED <<cafes, reviews, users, bookmarks, ids, seen, available>>

\* result = await self.collection.insert_one(user_dict)
create_user_insert(p) ==
    /\ req[p].op = "create_user"
    /\ req[p].pc = "insert"
    /\ IF available
       THEN /\ users' = insert_one(users, nextUserId,
                           [name |-> req[p].name, password |-> req[p].password])
            /\ nextUserId' = nextUserId + 1
            /\ Return(p, "create_user", nextUserId, "created")
       ELSE /\ UNCHANGED <<users, nextUserId>>
            /\ Return(p, "create_user", NoId, StoreError)
    /\ UNCHANGED <<cafes, reviews, bookmarks, nextCafeId, nextReviewId,
                   nextBookmarkId, nextPhotoId, seen, available>>

\* UserRepository.update_user: except Exception: return None
update_user_except(exception) == "None"

\* result = await self.collection.update_one({"_id": user_id}, {"$set": user_data})
update_one_user(us, user_id, name, password) ==
    IF user_id \notin DOMAIN us THEN us
    ELSE [us EXCEPT ![user_id] =
            [name |-> IF name # NoName THEN name ELSE @.name,
             password |-> IF password # NoName THEN password ELSE @.password]]

\* UserService.update_user; name / password = NoName: the field is None
update_user(p, user_id, name, password) ==
    /\ Ready(p)
    /\ IF name = NoName /\ password = NoName
       THEN /\ Return(p, "update_user", user_id, "None")
            /\ UNCHANGED users
       ELSE IF ~available
       THEN /\ Return(p, "update_user", user_id, update_user_except(StoreError))
            /\ UNCHANGED users
       ELSE IF name # NoName
       THEN /\ IF find_one_by_name(users, name, user_id)
               THEN Return(p, "update_user", user_id, update_user_except(DuplicateName))
               ELSE Goto(p, Request("update_user", "write", user_id, user_id, NoId,
                                    NoRating, name, password))
            /\ UNCHANGED users
       ELSE /\ users' = update_one_user(users, user_id, name, password)
            /\ Return(p, "update_user", user_id,
                      IF user_id \in DOMAIN users THEN "updated" ELSE "None")
    /\ UNCHANGED <<cafes, reviews, bookmarks, ids, seen, available>>

update_user_write(p) ==
    /\ req[p].op = "update_user"
    /\ req[p].pc = "write"
    /\ IF available
       THEN /\ users' = update_one_user(users, req[p].id, req[p].name, req[p].password)
            /\ Return(p, "update_user", req[p].id,
                      IF req[p].id \in DOMAIN users THEN "updated" ELSE "None")
       ELSE /\ UNCHANGED users
            /\ Return(p, "update_user", req[p].id, update_user_except(StoreError))
    /\ UNCHANGED <<cafes, reviews, bookmarks, ids, seen, available>>

\* UserRepository.delete_user: except Exception: return False
delete_user_except(exception) == "False"

\* UserService.delete_user: no modelled operation sets profile_picture, so the
\* get_user before the delete_one reads nothing that is used
delete_user(p, user_id) ==
    /\ Ready(p)
    /\ IF available
       THEN /\ users' = delete_one(users, user_id)
            /\ Return(p, "delete_user", user_id,
                      IF user_id \in DOMAIN users THEN "True" ELSE "False")
       ELSE /\ UNCHANGED users
            /\ Return(p, "delete_user", user_id, delete_user_except(StoreError))
    /\ UNCHANGED <<cafes, reviews, bookmarks, ids, seen, available>>

\* ---- BookmarkService / BookmarkRepository ----
BookmarksOf(bs, user_id, cafe_id) ==
    {b \in DOMAIN bs : bs[b].user_id = user_id /\ bs[b].cafe_id = cafe_id}

\* count_documents({"user_id": user_id, "cafe_id": cafe_id}) > 0
bookmark_never_exists(bs, user_id, cafe_id) == FALSE

\* a count that joins the bookmarks with the stored cafes and users
bookmark_exists_joined(bs, user_id, cafe_id) ==
    /\ Cardinality(BookmarksOf(bs, user_id, cafe_id)) > 0
    /\ cafe_id \in DOMAIN cafes
    /\ user_id \in DOMAIN users

bookmark_exists(bs, user_id, cafe_id) ==
    Cardinality(BookmarksOf(bs, user_id, cafe_id)) > 0

\* user = await self.user_repository.get_user(bookmark_data.user_id)
create_bookmark(p, user_id, cafe_id) ==
    /\ Ready(p)
    /\ nextBookmarkId + InFlight("create_bookmark") <= MaxBookmarks
    /\ IF get_user(users, user_id)
       THEN Goto(p, Request("create_bookmark", "get_cafe", NoId, user_id, cafe_id,
                            NoRating, NoName, NoName))
       ELSE Return(p, "create_bookmark", NoId, "404 User not found")
    /\ UNCHANGED <<cafes, reviews, users, bookmarks, ids, seen, available>>

\* cafe = await self.cafe_repository.get_cafe(bookmark_data.cafe_id)
create_bookmark_get_cafe(p) ==
    /\ req[p].op = "create_bookmark"
    /\ req[p].pc = "get_cafe"
    /\ IF get_cafe_raises(cafes, req[p].cafe_id)
       THEN Return(p, "create_bookmark", NoId, ValidationError)
       ELSE IF get_cafe(cafes, req[p].cafe_id)
       THEN Goto(p, [req[p] EXCEPT !.pc = "bookmark_exists"])
       ELSE Return(p, "create_bookmark", NoId, "404 Cafe not found")
    /\ UNCHANGED <<cafes, reviews, users, bookmarks, ids, seen, available>>

\* if await self.repository.bookmark_exists(user_id, cafe_id)
create_bookmark_exists(p) ==
    /\ req[p].op = "create_bookmark"
    /\ req[p].pc = "bookmark_exists"
    /\ IF bookmark_exists(bookmarks, req[p].user_id, req[p].cafe_id)
       THEN Return(p, "create_bookmark", NoId, "409 Bookmark already exists")
       ELSE Goto(p, [req[p] EXCEPT !.pc = "insert"])
    /\ UNCHANGED <<cafes, reviews, users, bookmarks, ids, seen, available>>

\* insert_one on a collection with a unique index on (user_id, cafe_id)
insert_one_unique_pair(bs, id, doc) ==
    IF BookmarksOf(bs, doc.user_id, doc.cafe_id) # {} THEN bs
    ELSE insert_one(bs, id, doc)

\* result = await self.collection.insert_one(bookmark_dict): the bookmarks
\* collection has no unique index
insert_one_bookmark(bs, id, doc) == insert_one(bs, id, doc)

\* created_bookmark = await self.repository.create_bookmark(bookmark_data)
create_bookmark_insert(p) ==
    /\ req[p].op = "create_bookmark"
    /\ req[p].pc = "insert"
    /\ bookmarks' = insert_one_bookmark(bookmarks, nextBookmarkId,
                       [user_id |-> req[p].user_id, cafe_id |-> req[p].cafe_id])
    /\ nextBookmarkId' = nextBookmarkId + 1
    /\ Return(p, "create_bookmark", nextBookmarkId, "created")
    /\ UNCHANGED <<cafes, reviews, users, nextCafeId, nextReviewId, nextUserId,
                   nextPhotoId, seen, available>>

\* bookmark = await self.get_bookmark(bookmark_id)
delete_bookmark(p, bookmark_id) ==
    /\ Ready(p)
    /\ IF bookmark_id \in DOMAIN bookmarks
       THEN Goto(p, Request("delete_bookmark", "delete", bookmark_id, NoId, NoId,
                            NoRating, NoName, NoName))
       ELSE Return(p, "delete_bookmark", bookmark_id, "404 Bookmark not found")
    /\ UNCHANGED <<cafes, reviews, users, bookmarks, ids, seen, available>>

\* success = await self.repository.delete_bookmark(bookmark_id)
delete_bookmark_delete(p) ==
    /\ req[p].op = "delete_bookmark"
    /\ req[p].pc = "delete"
    /\ bookmarks' = delete_one(bookmarks, req[p].id)
    /\ Return(p, "delete_bookmark", req[p].id,
              IF deleted_count(bookmarks, req[p].id) > 0 THEN "True" ELSE "False")
    /\ UNCHANGED <<cafes, reviews, users, ids, seen, available>>

\* bookmark = await self.repository.get_bookmark_by_user_and_cafe(user_id, cafe_id)
delete_bookmark_by_user_and_cafe(p, user_id, cafe_id) ==
    /\ Ready(p)
    /\ IF BookmarksOf(bookmarks, user_id, cafe_id) # {}
       THEN Goto(p, Request("delete_bookmark_by_user_and_cafe", "delete", NoId,
                            user_id, cafe_id, NoRating, NoName, NoName))
       ELSE Return(p, "delete_bookmark_by_user_and_cafe", NoId,
                   "404 Bookmark not found")
    /\ UNCHANGED <<cafes, reviews, users, bookmarks, ids, seen, available>>

\* success = await self.repository.delete_bookmark_by_user_and_cafe(user_id, cafe_id)
\* delete_one removes one of the matching documents
delete_bookmark_by_user_and_cafe_delete(p) ==
    /\ req[p].op = "delete_bookmark_by_user_and_cafe"
    /\ req[p].pc = "delete"
    /\ LET matching == BookmarksOf(bookmarks, req[p].user_id, req[p].cafe_id)
       IN IF matching = {}
          THEN /\ UNCHANGED bookmarks
               /\ Return(p, req[p].op, NoId, "False")
          ELSE \E b \in matching :
                  /\ bookmarks' = delete_one(bookmarks, b)
                  /\ Return(p, req[p].op, b, "True")
    /\ UNCHANGED <<cafes, reviews, users, ids, seen, available>>

\* return await self.repository.bookmark_exists(user_id, cafe_id)
check_bookmark_exists(p, user_id, cafe_id) ==
    /\ Ready(p)
    /\ Return(p, "check_bookmark_exists", NoId,
              IF bookmark_exists(bookmarks, user_id, cafe_id) THEN "True" ELSE "False")
    /\ UNCHANGED <<cafes, reviews, users, bookmarks, ids, seen, available>>

\* "$cafe_info.name": the field of the document, or missing
Has(v, f) == v.type = "object" /\ f \in DOMAIN v.value

\* {"$ne": [a, b]}: values of different types differ; a field that is not
\* in the document is not null
ne(a, b) == a.type # b.type \/ a # b

\* {"$toString": "$cafe_info._id"}: null when the field is null or missing
toString(v, f) == IF Has(v, f) THEN String(v.value[f]) ELSE Null

\* {"$sort": {"bookmarked_at": -1}}: ObjectIds are assigned in the order of
\* the inserts, so newest first is largest _id first
RECURSIVE sort_newest_first(_)
sort_newest_first(S) ==
    IF S = {} THEN << >>
    ELSE LET newest == CHOOSE x \in S : \A y \in S : y <= x
         IN <<newest>> \o sort_newest_first(S \ {newest})

\* {"$lookup": {"from": "cafes", "localField": "cafe_id", "foreignField": "_id"}}
lookup_none(cs, cafe_id) == << >>

lookup(cs, cafe_id) ==
    IF cafe_id \in DOMAIN cs
    THEN <<Object([f \in (DOMAIN cs[cafe_id]) \cup {"_id"} |->
                     IF f = "_id" THEN cafe_id ELSE cs[cafe_id][f]])>>
    ELSE << >>

\* {"$unwind": {"path": "$cafe_info", "preserveNullAndEmptyArrays": True}}:
\* the document is kept without the field when the array is empty
unwind(cafe_info) == IF cafe_info = << >> THEN Missing ELSE cafe_info[1]

SummaryFields == {"name", "address", "location", "average_rating", "amenities"}

\* "cafe": {"$cond": {"if": {"$ne": ["$cafe_info", None]}, "then": {...},
\* "else": None}}; a field of the "then" document whose value is missing is
\* left out of it
project_cafe(cafe_info) ==
    IF ne(cafe_info, Null)
    THEN Object([f \in {"id"} \cup {g \in SummaryFields : Has(cafe_info, g)} |->
                    IF f = "id" THEN toString(cafe_info, "_id")
                    ELSE cafe_info.value[f]])
    ELSE Null

\* BookmarkRepository.get_bookmarks_by_user: the documents the pipeline yields
aggregate_bookmarks(bs, cs, user_id) ==
    LET matched == sort_newest_first({b \in DOMAIN bs : bs[b].user_id = user_id})
    IN [i \in 1..Len(matched) |->
          [id |-> matched[i], user_id |-> bs[matched[i]].user_id,
           cafe_id |-> bs[matched[i]].cafe_id,
           cafe |-> project_cafe(unwind(lookup(cs, bs[matched[i]].cafe_id)))]]

\* user = await self.user_repository.get_user(user_id)
get_bookmarks_by_user(p, user_id) ==
    /\ Ready(p)
    /\ IF get_user(users, user_id)
       THEN Goto(p, Request("get_bookmarks_by_user", "aggregate", NoId, user_id, NoId,
                            NoRating, NoName, NoName))
       ELSE Return(p, "get_bookmarks_by_user", NoId,
                   HTTPException(404, "User not found"))
    /\ UNCHANGED <<cafes, reviews, users, bookmarks, ids, seen, available>>

\* bookmarks = await self.repository.get_bookmarks_by_user(user_id)
get_bookmarks_by_user_aggregate(p) ==
    /\ req[p].op = "get_bookmarks_by_user"
    /\ req[p].pc = "aggregate"
    /\ Return(p, "get_bookmarks_by_user", NoId,
              Ok(aggregate_bookmarks(bookmarks, cafes, req[p].user_id)))
    /\ UNCHANGED <<cafes, reviews, users, bookmarks, ids, seen, available>>

\* ---- specifications ----
CafeRequest(p) ==
    \/ \E a \in AverageRatings : create_cafe(p, TheCoffeeCorner(a))
    \/ \E c \in CafeIds, a \in AverageRatings \cup {NoRating} :
          update_cafe(p, c, NoName, a)
    \/ update_cafe_write(p)
    \/ \E c \in CafeIds : delete_cafe(p, c)

ReviewRequest(p) ==
    \/ \E c \in CafeIds, u \in UserIds, r \in OverallRatings : create_review(p, c, u, r)
    \/ \E i \in ReviewIds, r \in OverallRatings \cup {NoRating} : update_review(p, i, r)
    \/ update_review_write(p)
    \/ \E i \in ReviewIds : delete_review(p, i)
    \/ delete_review_write(p)
    \/ recompute(p)

UserRequest(p) ==
    \/ \E n \in Names, w \in Passwords : create_user(p, n, w)
    \/ create_user_insert(p)
    \/ \E u \in UserIds, n \in Names \cup {NoName}, w \in Passwords \cup {NoName} :
          update_user(p, u, n, w)
    \/ update_user_write(p)
    \/ \E u \in UserIds : delete_user(p, u)

BookmarkRequest(p) ==
    \/ \E u \in UserIds, c \in CafeIds : create_bookmark(p, u, c)
    \/ create_bookmark_get_cafe(p)
    \/ create_bookmark_exists(p)
    \/ create_bookmark_insert(p)
    \/ \E b \in BookmarkIds : delete_bookmark(p, b)
    \/ delete_bookmark_delete(p)
    \/ \E u \in UserIds, c \in CafeIds : delete_bookmark_by_user_and_cafe(p, u, c)
    \/ delete_bookmark_by_user_and_cafe_delete(p)

BookmarkQuery(p) ==
    \/ \E u \in UserIds, c \in CafeIds : check_bookmark_exists(p, u, c)
    \/ \E u \in UserIds : get_bookmarks_by_user(p, u)
    \/ get_bookmarks_by_user_aggregate(p)

\* every operation, requests interleaving between their store calls
Next ==
    \E p \in Procs : CafeRequest(p) \/ ReviewRequest(p) \/ UserRequest(p) \/ BookmarkRequest(p)

Spec == Init /\ [][Next]_vars

\* serial execution: each operation completes before the next starts
NextSerial ==
    \E p \in SerialProcs :
        CafeRequest(p) \/ ReviewRequest(p) \/ UserRequest(p) \/ BookmarkRequest(p)

SpecSerial == Init /\ [][NextSerial]_vars

\* the cafe and review operations, serially
NextReviewsSerial ==
    \E p \in SerialProcs : CafeRequest(p) \/ ReviewRequest(p)

SpecReviewsSerial == Init /\ [][NextReviewsSerial]_vars

\* review creation with the registration and removal of the cafes and users
\* a review refers to, serially
NextReviewRefsSerial ==
    \E p \in SerialProcs :
        \/ \E a \in AverageRatings : create_cafe(p, TheCoffeeCorner(a))
        \/ \E c \in CafeIds : delete_cafe(p, c)
        \/ \E n \in Names, w \in Passwords : create_user(p, n, w)
        \/ create_user_insert(p)
        \/ \E u \in UserIds : delete_user(p, u)
        \/ \E c \in CafeIds, u \in UserIds, r \in OverallRatings :
              create_review(p, c, u, r)
        \/ recompute(p)

SpecReviewRefsSerial == Init /\ [][NextReviewRefsSerial]_vars

\* concurrent review mutations on cafe 1, registered (create_cafe) with the
\* default average_rating, with the history of its review sets
InitSnapshots ==
    /\ cafes = insert_one(<< >>, 1, TheCoffeeCorner(1))
    /\ reviews = << >>
    /\ users = << >>
    /\ bookmarks = << >>
    /\ nextCafeId = 2
    /\ nextReviewId = 1
    /\ nextUserId = 1
    /\ nextBookmarkId = 1
    /\ nextPhotoId = 1
    /\ req = [p \in Procs |-> NoRequest]
    /\ response = [op |-> "none", result |-> "none"]
    /\ seen = [c \in CafeIds |-> {<<0, 0>>}]
    /\ available = TRUE

NextReviews == \E p \in Procs : ReviewRequest(p)

SpecReviews == InitSnapshots /\ [][NextReviews]_vars

\* concurrent user registrations, updates and deletions
NextUsers == \E p \in Procs : UserRequest(p)

SpecUsers == Init /\ [][NextUsers]_vars

\* concurrent registrations and deletions
NextRegistration ==
    \E p \in Procs :
        \/ \E n \in Names, w \in Passwords : create_user(p, n, w)
        \/ create_user_insert(p)
        \/ \E u \in UserIds : delete_user(p, u)

SpecRegistration == Init /\ [][NextRegistration]_vars

\* the user operations, serially, against a store that may stop answering
NextDependencySerial ==
    \/ store_fails
    \/ store_recovers
    \/ \E p \in SerialProcs :
          \/ UserRequest(p)
          \/ \E u \in UserIds : UserService_get_user(p, u)

SpecDependencySerial == Init /\ [][NextDependencySerial]_vars

\* the bookmark operations with the users and cafes they refer to
BookmarkWorld(p) ==
    \/ \E a \in AverageRatings : create_cafe(p, TheCoffeeCorner(a))
    \/ \E c \in CafeIds : delete_cafe(p, c)
    \/ \E n \in Names, w \in Passwords : create_user(p, n, w)
    \/ create_user_insert(p)
    \/ \E u \in UserIds : delete_user(p, u)
    \/ BookmarkRequest(p)

NextBookmarksSerial == \E p \in SerialProcs : BookmarkWorld(p)

SpecBookmarksSerial == Init /\ [][NextBookmarksSerial]_vars

\* concurrent bookmark requests against a store in which user 1 and cafe 1
\* have been registered (create_user, create_cafe) and the other ids have not
InitBookmarks ==
    /\ cafes = insert_one(<< >>, 1, TheCoffeeCorner(1))
    /\ reviews = << >>
    /\ users = insert_one(<< >>, 1, [name |-> "Alice", password |-> "pw1"])
    /\ bookmarks = << >>
    /\ nextCafeId = 2
    /\ nextReviewId = 1
    /\ nextUserId = 2
    /\ nextBookmarkId = 1
    /\ nextPhotoId = 1
    /\ req = [p \in Procs |-> NoRequest]
    /\ response = [op |-> "none", result |-> "none"]
    /\ seen = [c \in CafeIds |-> {}]
    /\ available = TRUE

NextBookmarks ==
    \E p \in Procs :
        \/ \E c \in CafeIds : delete_cafe(p, c)
        \/ \E u \in UserIds : delete_user(p, u)
        \/ BookmarkRequest(p)

SpecBookmarks == InitBookmarks /\ [][NextBookmarks]_vars

\* a store in which user 1 has been registered (create_user) and nothing else
InitRegistered ==
    /\ cafes = << >>
    /\ reviews = << >>
    /\ users = insert_one(<< >>, 1, [name |-> "Alice", password |-> "pw1"])
    /\ bookmarks = << >>
    /\ nextCafeId = 1
    /\ nextReviewId = 1
    /\ nextUserId = 2
    /\ nextBookmarkId = 1
    /\ nextPhotoId = 1
    /\ req = [p \in Procs |-> NoRequest]
    /\ response = [op |-> "none", result |-> "none"]
    /\ seen = [c \in CafeIds |-> {}]
    /\ available = TRUE

\* serially: creations, reads and deletions of cafes and reviews
NextLifecycleSerial ==
    \E p \in SerialProcs :
        \/ \E a \in AverageRatings : create_cafe(p, TheCoffeeCorner(a))
        \/ create_cafe(p, Misplaced)
        \/ \E c \in CafeIds : CafeService_get_cafe(p, c)
        \/ \E c \in CafeIds : delete_cafe(p, c)
        \/ \E c \in CafeIds, r \in OverallRatings : create_review(p, c, 1, r)
        \/ \E i \in ReviewIds : ReviewService_get_review(p, i)
        \/ \E i \in ReviewIds : delete_review(p, i)
        \/ delete_review_write(p)
        \/ recompute(p)

SpecLifecycleSerial == Init /\ [][NextLifecycleSerial]_vars

\* a store in which three cafes have been registered (create_cafe)
Catalogue ==
    <<CafeCreate("Brew", "Elm", "Rome", <<0, 0>>, {"wifi", "outlets"}, 4),
      CafeCreate("Nook", "Oak", "Oslo", <<10, 0>>, {"wifi"}, 2),
      CafeCreate("Java", "Elm", "Rome", <<0 - 170, 0>>, {}, 5)>>

InitCatalogue ==
    /\ cafes = Catalogue
    /\ reviews = << >>
    /\ users = << >>
    /\ bookmarks = << >>
    /\ nextCafeId = Len(Catalogue) + 1
    /\ nextReviewId = 1
    /\ nextUserId = 1
    /\ nextBookmarkId = 1
    /\ nextPhotoId = 1
    /\ req = [p \in Procs |-> NoRequest]
    /\ response = [op |-> "none", result |-> "none"]
    /\ seen = [c \in CafeIds |-> {}]
    /\ available = TRUE

CafeQuery(p) ==
    \/ \E q \in Queries : search_cafes(p, q)
    \/ \E lon \in Longitudes, lat \in Latitudes, d \in MaxDistances :
          find_nearby_cafes(p, lon, lat, d)
    \/ \E a \in Amenities : find_cafes_by_amenities(p, a)
    \/ \E m \in MinRatings : find_cafes_by_rating(p, m)

\* serially: the queries over the catalogue while its cafes are deleted and
\* cafe 2 is re-rated
NextDiscoverySerial ==
    \E p \in SerialProcs :
        \/ \E a \in AverageRatings : update_cafe(p, 2, NoName, a)
        \/ update_cafe_write(p)
        \/ \E c \in DOMAIN Catalogue : delete_cafe(p, c)
        \/ CafeQuery(p)

SpecDiscoverySerial == InitCatalogue /\ [][NextDiscoverySerial]_vars

\* serially: bookmarking and reviewing cafes, listing a user's bookmarks, and
\* renaming, re-rating and deleting the cafes they refer to
NextReferencesSerial ==
    \E p \in SerialProcs :
        \/ \E a \in AverageRatings : create_cafe(p, TheCoffeeCorner(a))
        \/ \E c \in CafeIds, n \in CafeNames \cup {NoName},
              a \in AverageRatings \cup {NoRating} : update_cafe(p, c, n, a)
        \/ update_cafe_write(p)
        \/ \E c \in CafeIds : delete_cafe(p, c)
        \/ \E c \in CafeIds : create_review(p, c, 1, 4)
        \/ recompute(p)
        \/ \E u \in UserIds, c \in CafeIds : create_bookmark(p, u, c)
        \/ create_bookmark_get_cafe(p)
        \/ create_bookmark_exists(p)
        \/ create_bookmark_insert(p)
        \/ BookmarkQuery(p)

SpecReferencesSerial == InitRegistered /\ [][NextReferencesSerial]_vars

\* a store in which three cafes have been registered and three reviews
\* written (create_review): two of cafe 1, one of cafe 2, none of cafe 3
Gallery ==
    <<ReviewCreate(1, 1, 4), ReviewCreate(2, 2, 2), ReviewCreate(1, 2, 4)>>

InitGallery ==
    /\ cafes = Catalogue
    /\ reviews = Gallery
    /\ users = << >>
    /\ bookmarks = << >>
    /\ nextCafeId = Len(Catalogue) + 1
    /\ nextReviewId = Len(Gallery) + 1
    /\ nextUserId = 1
    /\ nextBookmarkId = 1
    /\ nextPhotoId = 1
    /\ req = [p \in Procs |-> NoRequest]
    /\ response = [op |-> "none", result |-> "none"]
    /\ seen = [c \in CafeIds |-> {}]
    /\ available = TRUE

\* serially: photos added to the reviews of the gallery and to a review id
\* that is not in the store, and the photos of each cafe listed
NextPhotosSerial ==
    \E p \in SerialProcs :
        \/ \E i \in 1..(Len(Gallery) + 1), u \in Urls, c \in Captions :
              add_photo(p, i, PhotoCreate(u, c))
        \/ add_photo_push(p)
        \/ add_photo_get_review(p)
        \/ \E c \in DOMAIN Catalogue : get_cafe_photos(p, c)

SpecPhotosSerial == InitGallery /\ [][NextPhotosSerial]_vars
\* a store in which cafe 1, user 1 and a review of cafe 1 by user 1 have been
\* registered (create_cafe, create_user, create_review)
InitPopulated ==
    /\ cafes = insert_one(<< >>, 1, TheCoffeeCorner(1))
    /\ reviews = insert_one(<< >>, 1, ReviewCreate(1, 1, 4))
    /\ users = insert_one(<< >>, 1, [name |-> "Alice", password |-> "pw1"])
    /\ bookmarks = << >>
    /\ nextCafeId = 2
    /\ nextReviewId = 2
    /\ nextUserId = 2
    /\ nextBookmarkId = 1
    /\ nextPhotoId = 1
    /\ req = [p \in Procs |-> NoRequest]
    /\ response = [op |-> "none", result |-> "none"]
    /\ seen = [c \in CafeIds |-> {}]
    /\ available = TRUE

\* serially: the updates of the cafe, the review and the user, each with
\* every subset of its modelled fields
NextUpdatesSerial ==
    \E p \in SerialProcs :
        \/ \E c \in CafeIds, n \in CafeNames \cup {NoName},
              a \in AverageRatings \cup {NoRating} : update_cafe(p, c, n, a)
        \/ update_cafe_write(p)
        \/ \E i \in ReviewIds, r \in OverallRatings \cup {NoRating} : update_review(p, i, r)
        \/ update_review_write(p)
        \/ recompute(p)
        \/ \E u \in UserIds, n \in Names \cup {NoName}, w \in Passwords \cup {NoName} :
              update_user(p, u, n, w)
        \/ update_user_write(p)

SpecUpdatesSerial == InitPopulated /\ [][NextUpdatesSerial]_vars
\* serially: logins among the registrations, updates and deletions of users
NextLoginSerial ==
    \E p \in SerialProcs :
        \/ UserRequest(p)
        \/ \E n \in LoginNames, w \in Passwords : authenticate_user(p, n, w)

SpecLoginSerial == Init /\ [][NextLoginSerial]_vars
\* concurrent review mutations on the review and the cafe of the populated
\* store; an update may leave overall_rating out, or give it as None
NextRecompute ==
    \E p \in Procs :
        \/ \E c \in CafeIds : create_review(p, c, 1, 4)
        \/ \E i \in ReviewIds, r \in {2, NoRating, NullRating} : update_review(p, i, r)
        \/ update_review_write(p)
        \/ \E i \in ReviewIds : delete_review(p, i)
        \/ delete_review_write(p)
        \/ recompute(p)

SpecRecompute == InitPopulated /\ [][NextRecompute]_vars
\* serially: cafes created and updated, an update leaving average_rating out
\* or giving it as None, and reviews with overall_rating 0 and 5 written,
\* changed and deleted
NextRatingsSerial ==
    \E p \in SerialProcs :
        \/ \E a \in AverageRatings : create_cafe(p, TheCoffeeCorner(a))
        \/ \E c \in CafeIds, a \in AverageRatings \cup {NoRating, NullRating} :
              update_cafe(p, c, NoName, a)
        \/ update_cafe_write(p)
        \/ \E c \in CafeIds, r \in {0, 5} : create_review(p, c, 1, r)
        \/ \E i \in ReviewIds, r \in {0, 5, NoRating} : update_review(p, i, r)
        \/ update_review_write(p)
        \/ \E i \in ReviewIds : delete_review(p, i)
        \/ delete_review_write(p)
        \/ recompute(p)

SpecRatingsSerial == Init /\ [][NextRatingsSerial]_vars
\* a store in which cafe 1, user 1, a review of cafe 1 by user 1 and a
\* bookmark of cafe 1 by user 1 have been registered
InitDeletes ==
    /\ cafes = insert_one(<< >>, 1, TheCoffeeCorner(1))
    /\ reviews = insert_one(<< >>, 1, ReviewCreate(1, 1, 4))
    /\ users = insert_one(<< >>, 1, [name |-> "Alice", password |-> "pw1"])
    /\ bookmarks = insert_one(<< >>, 1, [user_id |-> 1, cafe_id |-> 1])
    /\ nextCafeId = 2
    /\ nextReviewId = 2
    /\ nextUserId = 2
    /\ nextBookmarkId = 2
    /\ nextPhotoId = 1
    /\ req = [p \in Procs |-> NoRequest]
    /\ response = [op |-> "none", result |-> "none"]
    /\ seen = [c \in CafeIds |-> {}]
    /\ available = TRUE

\* concurrent deletions of the reviews and of the bookmarks by id
NextDeletes ==
    \E p \in Procs :
        \/ \E i \in ReviewIds : delete_review(p, i)
        \/ delete_review_write(p)
        \/ recompute(p)
        \/ \E b \in BookmarkIds : delete_bookmark(p, b)
        \/ delete_bookmark_delete(p)

SpecDeletes == InitDeletes /\ [][NextDeletes]_vars
\* serially: bookmarks of user 1 and cafe 1 created, looked up and deleted
\* while the user and the cafe are deleted
NextOrphansSerial ==
    \E p \in SerialProcs :
        \/ \E c \in CafeIds : delete_cafe(p, c)
        \/ \E u \in UserIds : delete_user(p, u)
        \/ \E u \in UserIds, c \in CafeIds : create_bookmark(p, u, c)
        \/ create_bookmark_get_cafe(p)
        \/ create_bookmark_exists(p)
        \/ create_bookmark_insert(p)
        \/ \E u \in UserIds, c \in CafeIds : check_bookmark_exists(p, u, c)
        \/ \E b \in BookmarkIds : delete_bookmark(p, b)
        \/ delete_bookmark_delete(p)

SpecOrphansSerial == InitBookmarks /\ [][NextOrphansSerial]_vars

\* ---- properties ----
AllIdle == \A p \in Procs : Ready(p)

\* C1: under serial execution, when a review mutation has recomputed the
\* rating of an existing cafe, the cafe's average_rating is the mean of
\* overall_rating over its current reviews, or is left as it was when the
\* cafe has no review.
C1_AverageIsMean ==
    [][\A p \in Procs :
         (req[p].pc = "recompute" /\ req'[p].pc = "idle"
            /\ req[p].cafe_id \in DOMAIN cafes /\ req[p].cafe_id \in DOMAIN cafes')
         => LET c == req[p].cafe_id
                S == ReviewsOf(reviews', c)
            IN IF S # {}
               THEN cafes'[c].average_rating * Cardinality(S) = SumRatings(reviews', S)
               ELSE cafes'[c].average_rating = cafes[c].average_rating]_vars

\* C2: a create_review whose study_spot_id names no stored cafe, or whose
\* user_id names no stored user, writes no review and returns an integrity error.
C2_MissingReferenceRejected ==
    [][\A p \in Procs, c \in CafeIds, u \in UserIds, r \in OverallRatings :
         (create_review(p, c, u, r) /\ (c \notin DOMAIN cafes \/ u \notin DOMAIN users))
         => (reviews' = reviews /\ response'.result = "IntegrityError")]_vars

\* C3: a create_bookmark whose user is not in the store when it is looked up,
\* or whose cafe is not, ends there with the 404 "not found" error of the
\* missing reference and writes no bookmark.
C3_BookmarkNeedsUserAndCafe ==
    [][\A p \in Procs :
         /\ \A u \in UserIds, c \in CafeIds :
               (create_bookmark(p, u, c) /\ u \notin DOMAIN users)
               => /\ response' = [op |-> "create_bookmark", result |-> "404 User not found"]
                  /\ req'[p] = NoRequest
                  /\ bookmarks' = bookmarks
         /\ (create_bookmark_get_cafe(p) /\ req[p].cafe_id \notin DOMAIN cafes)
               => /\ response' = [op |-> "create_bookmark", result |-> "404 Cafe not found"]
                  /\ req'[p] = NoRequest
                  /\ bookmarks' = bookmarks]_vars

C3_Witness ==
    /\ response = [op |-> "create_bookmark", result |-> "404 Cafe not found"]
    /\ 1 \in DOMAIN users
    /\ bookmarks = << >>

C5_InsertAfterCheckAlwaysLands ==
    [][\A p \in Procs :
         create_bookmark_insert(p)
         => Cardinality(BookmarksOf(bookmarks', req[p].user_id, req[p].cafe_id))
              = Cardinality(BookmarksOf(bookmarks, req[p].user_id, req[p].cafe_id)) + 1]_vars

C5_Witness ==
    \E u \in UserIds, c \in CafeIds : Cardinality(BookmarksOf(bookmarks, u, c)) >= 2

\* C6: no two stored users have the same name.
C6_UniqueNames ==
    \A u1 \in DOMAIN users, u2 \in DOMAIN users :
        u1 # u2 => users[u1].name # users[u2].name

\* C7: a create_user that looks its name up while a stored user has that name
\* raises the duplicate-name ValueError and adds no user.
C7_DuplicateNameRejected ==
    [][\A p \in Procs, n \in Names, w \in Passwords :
         (create_user(p, n, w) /\ \E u \in DOMAIN users : users[u].name = n)
         => /\ response' = [op |-> "create_user", result |-> DuplicateName]
            /\ req'[p] = NoRequest
            /\ users' = users]_vars

C7_Witness ==
    /\ response = [op |-> "create_user", result |-> DuplicateName]
    /\ users # << >>

\* C8: an update_user of a stored user that sets the name to one held by
\* another user leaves the users unchanged and returns a conflict error that
\* differs from the not-found result (None).
C8_RenameConflictDistinguishable ==
    [][\A p \in Procs, u \in UserIds, n \in Names, w \in Passwords \cup {NoName} :
         (update_user(p, u, n, w) /\ u \in DOMAIN users
            /\ \E o \in DOMAIN users : o # u /\ users[o].name = n)
         => (users' = users /\ response'.result # "None")]_vars

\* C9: when the rating recomputation raises after a review write, the review
\* mutation still returns its normal result and the write stays in the store.
C9_RecomputeFailureSwallowed ==
    [][\A p \in Procs :
         (recompute(p)
            /\ update_cafe_average_rating(cafes, reviews, req[p].cafe_id).raised)
         => /\ response' = [op |-> req[p].op, result |-> Returned(req[p].op)]
            /\ reviews' = reviews
            /\ (req[p].id \in DOMAIN reviews') = (req[p].op # "delete_review")]_vars

C9_Witness ==
    /\ response = [op |-> "delete_review", result |-> "True"]
    /\ AllIdle

\* C10: once every concurrent review mutation on a cafe has finished, the
\* cafe's average_rating is the mean of some review set the cafe has had.
C10_AverageOfSomeSnapshot ==
    \A c \in DOMAIN cafes :
        (AllIdle /\ seen[c] # {<<0, 0>>})
        => \E s \in seen[c] :
              s[2] > 0 /\ cafes[c].average_rating * s[2] = s[1]

\* C11: when a user's bookmarks are listed and the cafe of one of them is no
\* longer in the store, the list succeeds, contains that bookmark, and the
\* bookmark's cafe summary is null.
C11_DeletedCafeNullSummary ==
    [][\A p \in Procs :
         get_bookmarks_by_user_aggregate(p)
         => /\ response'.result.status_code = 200
            /\ \A b \in DOMAIN bookmarks :
                  (bookmarks[b].user_id = req[p].user_id
                     /\ bookmarks[b].cafe_id \notin DOMAIN cafes)
                  => \E i \in DOMAIN response'.result.body :
                        /\ response'.result.body[i].id = b
                        /\ response'.result.body[i].cafe.type = "null"]_vars

\* C12: under serial execution a created bookmark makes bookmark_exists true
\* for its pair, and the list of the user's bookmarks has exactly one entry
\* for each bookmarked cafe that is in the store, whose summary carries the
\* name and average_rating the cafe has in the store when the list is made.
C12_ListShowsCurrentCafe ==
    [][\A p \in Procs :
         /\ create_bookmark_insert(p)
               => bookmark_exists(bookmarks', req[p].user_id, req[p].cafe_id)
         /\ \A u \in UserIds, c \in CafeIds :
               (check_bookmark_exists(p, u, c) /\ BookmarksOf(bookmarks, u, c) # {})
               => response'.result = "True"
         /\ get_bookmarks_by_user_aggregate(p)
               => \A c \in DOMAIN cafes :
                     BookmarksOf(bookmarks, req[p].user_id, c) # {}
                     => LET body == response'.result.body
                            hits == {i \in DOMAIN body : body[i].cafe_id = c}
                        IN /\ Cardinality(hits) = 1
                           /\ \A i \in hits :
                                 /\ body[i].cafe.type = "object"
                                 /\ {"name", "average_rating"} \subseteq DOMAIN body[i].cafe.value
                                 /\ body[i].cafe.value.name = cafes[c].name
                                 /\ body[i].cafe.value.average_rating
                                      = cafes[c].average_rating]_vars

C12_Witness ==
    /\ response.op = "get_bookmarks_by_user"
    /\ response.result.status_code = 200
    /\ Len(response.result.body) = 1
    /\ response.result.body[1].cafe.type = "object"
    /\ "name" \in DOMAIN response.result.body[1].cafe.value
    /\ response.result.body[1].cafe.value.name = "Nook"
    /\ response.result.body[1].cafe.value.average_rating = 3
    /\ bookmark_exists(bookmarks, 1, 1)

\* C13: delete_cafe removes the cafe document and nothing else: the reviews,
\* the bookmarks and the users are left as they were.
C13_DeleteCafeDoesNotCascade ==
    [][\A p \in Procs, c \in CafeIds :
         delete_cafe(p, c)
         => /\ cafes' = delete_one(cafes, c)
            /\ reviews' = reviews
            /\ bookmarks' = bookmarks
            /\ users' = users]_vars

C13_Witness ==
    /\ response.op = "delete_cafe"
    /\ response.result = "True"
    /\ \E r \in DOMAIN reviews : reviews[r].study_spot_id \notin DOMAIN cafes
    /\ \E b \in DOMAIN bookmarks : bookmarks[b].cafe_id \notin DOMAIN cafes

\* C14: a get_user, update_user or delete_user whose store call is made while
\* the store does not answer reports the store's error, not None or False.
C14_StoreFailureSurfaced ==
    [][\A p \in Procs :
         (/\ ~available
          /\ \/ \E u \in UserIds : UserService_get_user(p, u) \/ delete_user(p, u)
             \/ \E u \in UserIds, n \in Names \cup {NoName}, w \in Passwords \cup {NoName} :
                   update_user(p, u, n, w) /\ (n # NoName \/ w # NoName)
             \/ update_user_write(p))
         => response'.result = StoreError]_vars

\* C15: find_nearby_cafes raises the 400 validation error exactly when the
\* longitude is outside [-180, 180], the latitude is outside [-90, 90] or
\* max_distance is not greater than 0; -180, 180, -90 and 90 are accepted.
C15_NearbyValidation ==
    [][\A p \in Procs, lon \in Longitudes, lat \in Latitudes, d \in MaxDistances :
         find_nearby_cafes(p, lon, lat, d)
         => /\ cafes' = cafes
            /\ (response'.result.status_code = 400)
                 <=> (\/ lon < 0 - 180 \/ lon > 180
                      \/ lat < 0 - 90 \/ lat > 90
                      \/ d <= 0)]_vars

C15_Witness ==
    /\ response.op = "find_nearby_cafes"
    /\ response.result.status_code = 400
    /\ response.result.detail = "Max distance must be greater than 0"

\* C16: for valid inputs find_nearby_cafes returns only cafes within
\* max_distance of the point, each once, nearest first, and at least as many
\* as a smaller max_distance finds in the same store.
C16_NearbyWithinDistanceNearestFirst ==
    [][\A p \in Procs, lon \in Longitudes, lat \in Latitudes, d \in MaxDistances :
         (find_nearby_cafes(p, lon, lat, d) /\ response'.result.status_code = 200)
         => LET body == response'.result.body
                from(c) == distance(cafes[c].location.coordinates, <<lon, lat>>)
            IN /\ \A i \in DOMAIN body : body[i] \in DOMAIN cafes /\ from(body[i]) <= d
               /\ \A i, j \in DOMAIN body :
                     i < j => body[i] # body[j] /\ from(body[i]) <= from(body[j])
               /\ \A d1 \in MaxDistances :
                     (0 < d1 /\ d1 <= d)
                     => Cardinality(near(cafes, <<lon, lat>>, d1)) <= Len(body)]_vars

C16_Witness ==
    /\ response.op = "find_nearby_cafes"
    /\ response.result.status_code = 200
    /\ response.result.body = <<1, 2>>
    /\ DOMAIN cafes = {1, 2, 3}

\* C17: find_cafes_by_amenities with a non-empty list returns exactly the
\* cafes whose amenities contain every element of the list, whatever the
\* order of the list; with an empty list it raises the 400 validation error.
C17_AmenitiesSuperset ==
    [][\A p \in Procs, a \in Amenities :
         find_cafes_by_amenities(p, a)
         => IF a = << >>
            THEN response'.result.status_code = 400
            ELSE LET hits == {c \in DOMAIN cafes :
                                \A i \in DOMAIN a : a[i] \in cafes[c].amenities}
                 IN /\ response'.result.status_code = 200
                    /\ Range(response'.result.body) = hits
                    /\ Len(response'.result.body) = Cardinality(hits)]_vars

C17_Witness ==
    /\ response.op = "find_cafes_by_amenities"
    /\ response.result.status_code = 200
    /\ response.result.body = <<1>>
    /\ 2 \in DOMAIN cafes

\* C18: find_cafes_by_rating with 1 <= min_rating <= 5 returns exactly the
\* cafes whose average_rating is at least min_rating; with a min_rating
\* outside [1, 5] it raises the 400 validation error.
C18_MinRating ==
    [][\A p \in Procs, m \in MinRatings :
         find_cafes_by_rating(p, m)
         => IF m < 1 \/ m > 5
            THEN response'.result.status_code = 400
            ELSE LET hits == {c \in DOMAIN cafes : cafes[c].average_rating >= m}
                 IN /\ response'.result.status_code = 200
                    /\ Range(response'.result.body) = hits
                    /\ Len(response'.result.body) = Cardinality(hits)]_vars

C18_Witness ==
    /\ response.op = "find_cafes_by_rating"
    /\ response.result.status_code = 200
    /\ response.result.body = <<2>>
    /\ cafes[2].average_rating = 3
    /\ DOMAIN cafes = {2}

\* C19: search_cafes with a query that is not empty or all whitespace returns
\* exactly the cafes whose name, city or street contains the query as a
\* case-insensitive substring, every character of the query taken literally;
\* with an empty or all-whitespace query it raises the 400 validation error.
C19_SearchIsLiteralSubstring ==
    [][\A p \in Procs, q \in Queries :
         search_cafes(p, q)
         => IF \A i \in DOMAIN Chars(q) : Chars(q)[i] = " "
            THEN response'.result.status_code = 400
            ELSE LET contains(text) ==
                         \E k \in 0..(Len(Chars(text)) - Len(Chars(q))) :
                            \A i \in DOMAIN Chars(q) :
                               lower(Chars(q)[i]) = lower(Chars(text)[k + i])
                     hits == {c \in DOMAIN cafes :
                                \/ contains(cafes[c].name)
                                \/ contains(cafes[c].address.city)
                                \/ contains(cafes[c].address.street)}
                 IN /\ response'.result.status_code = 200
                    /\ Range(response'.result.body) = hits]_vars

\* C20: under serial execution a created cafe or review is in the store under its id and get
\* returns it until a delete removes it; once deleted it stays absent, get
\* returns None, and a further delete returns False and changes nothing.
C20_CreateGetDeleteLifecycle ==
    [][\A p \in Procs :
         /\ \A d \in {TheCoffeeCorner(a) : a \in AverageRatings} :
               create_cafe(p, d)
               => nextCafeId \in DOMAIN cafes' /\ cafes'[nextCafeId] = d
         /\ \A c \in CafeIds, r \in OverallRatings :
               create_review(p, c, 1, r)
               => /\ nextReviewId \in DOMAIN reviews'
                  /\ reviews'[nextReviewId]
                       = [study_spot_id |-> c, user_id |-> 1, overall_rating |-> r,
                          photos |-> << >>]
         /\ \A c \in CafeIds :
               /\ CafeService_get_cafe(p, c)
                     => response'.result
                          = IF c \in DOMAIN cafes THEN Object(cafes[c]) ELSE Null
               /\ (c \in DOMAIN cafes /\ c \notin DOMAIN cafes')
                     => \E q \in Procs : delete_cafe(q, c)
               /\ (c \notin DOMAIN cafes /\ c < nextCafeId) => c \notin DOMAIN cafes'
               /\ (delete_cafe(p, c) /\ c \notin DOMAIN cafes)
                     => response'.result = "False" /\ cafes' = cafes /\ reviews' = reviews
         /\ \A i \in ReviewIds :
               /\ ReviewService_get_review(p, i)
                     => response'.result
                          = IF i \in DOMAIN reviews THEN Object(reviews[i]) ELSE Null
               /\ (i \in DOMAIN reviews /\ i \notin DOMAIN reviews')
                     => \E q \in Procs : delete_review_write(q) /\ req[q].id = i
               /\ (i \notin DOMAIN reviews /\ i < nextReviewId) => i \notin DOMAIN reviews'
               /\ (delete_review(p, i) /\ i \notin DOMAIN reviews)
                     => response'.result = "False" /\ cafes' = cafes /\ reviews' = reviews
               /\ (delete_review_write(p) /\ req[p].id = i /\ i \notin DOMAIN reviews)
                     => response'.result = "False" /\ cafes' = cafes
                        /\ reviews' = reviews]_vars

C20_Witness ==
    /\ response.op = "get_review"
    /\ response.result = Null
    /\ nextReviewId = MaxReviews + 1
    /\ reviews = << >>
    /\ nextCafeId = MaxCafes + 1
    /\ cafes = << >>

\* C21: under serial execution add_photo on a stored review appends one photo
\* with a fresh _id and the given url and caption at the end of the review's
\* photos, keeps the earlier photos in their order, the review's other
\* fields and the other reviews, and returns the review; on a review id that
\* is not in the store it returns None and changes nothing.
C21_AddPhotoAppends ==
    [][\A p \in Procs :
         /\ (add_photo_push(p) /\ req[p].id \in DOMAIN reviews)
               => LET i == req[p].id
                      old == reviews[i].photos
                      new == reviews'[i].photos
                  IN /\ Len(new) = Len(old) + 1
                     /\ \A k \in DOMAIN old : new[k] = old[k]
                     /\ new[Len(new)].url = req[p].photo_data.url
                     /\ new[Len(new)].caption = req[p].photo_data.caption
                     /\ \A j \in DOMAIN reviews : \A k \in DOMAIN reviews[j].photos :
                           reviews[j].photos[k]._id # new[Len(new)]._id
                     /\ [reviews' EXCEPT ![i].photos = old] = reviews
         /\ add_photo_get_review(p)
               => /\ response'.result = Object(reviews[req[p].id])
                  /\ reviews' = reviews
         /\ \A i \in 1..(Len(Gallery) + 1), u \in Urls, c \in Captions :
               (add_photo(p, i, PhotoCreate(u, c)) /\ i \notin DOMAIN reviews)
               => /\ response' = [op |-> "add_photo", result |-> Null]
                  /\ req'[p] = NoRequest
                  /\ reviews' = reviews]_vars

C21_Witness ==
    /\ response.op = "add_photo"
    /\ response.result.type = "object"
    /\ Len(response.result.value.photos) = 2
    /\ response.result.value.photos[1].url = "b.jpg"
    /\ response.result.value.photos[2].url = "a.jpg"
    /\ response.result.value.photos[2].caption = "Desk"

\* C22: an update_cafe, update_review or update_user of a stored document,
\* with any subset of the fields supplied (also none, and for a user no name
\* held by another user), succeeds, sets the supplied fields and leaves the
\* other fields and the other documents as they were.  (updated_at is not in
\* the state; the update that succeeds is the one that refreshes it.)
C22_SparseUpdateSucceeds ==
    [][\A p \in Procs :
         /\ (update_cafe_write(p) /\ req[p].id \in DOMAIN cafes)
               => /\ response'.result = "updated"
                  /\ cafes' = [cafes EXCEPT
                        ![req[p].id].name =
                            IF req[p].name # NoName THEN req[p].name ELSE @,
                        ![req[p].id].average_rating =
                            IF req[p].rating # NoRating THEN req[p].rating ELSE @]
         /\ (update_review_write(p) /\ req[p].id \in DOMAIN reviews)
               => /\ \/ response' = [op |-> "update_review", result |-> "updated"]
                     \/ req'[p].pc = "recompute"
                  /\ reviews' = [reviews EXCEPT
                        ![req[p].id].overall_rating =
                            IF req[p].rating # NoRating THEN req[p].rating ELSE @]
         /\ \A u \in UserIds, n \in Names \cup {NoName}, w \in Passwords \cup {NoName} :
               (update_user(p, u, n, w) /\ u \in DOMAIN users
                  /\ ~\E o \in DOMAIN users : o # u /\ users[o].name = n)
               => \/ req'[p].pc = "write" /\ users' = users
                  \/ /\ response' = [op |-> "update_user", result |-> "updated"]
                     /\ users' = [users EXCEPT
                           ![u].name = IF n # NoName THEN n ELSE @,
                           ![u].password = IF w # NoName THEN w ELSE @]
         /\ (update_user_write(p) /\ req[p].id \in DOMAIN users)
               => /\ response' = [op |-> "update_user", result |-> "updated"]
                  /\ users' = [users EXCEPT
                        ![req[p].id].name = req[p].name,
                        ![req[p].id].password =
                            IF req[p].password # NoName THEN req[p].password ELSE @]]_vars

\* C23: under serial execution authenticate_user returns the user exactly
\* when a stored user has exactly that name and that password now; otherwise,
\* so also with the credentials of a deleted user or a password that
\* update_user has replaced, it returns None.
C23_AuthenticateExactly ==
    [][\A p \in Procs, n \in LoginNames, w \in Passwords :
         authenticate_user(p, n, w)
         => /\ users' = users
            /\ IF \E u \in DOMAIN users : users[u].name = n /\ users[u].password = w
               THEN /\ response'.result.type = "object"
                    /\ response'.result.value._id \in DOMAIN users
                    /\ users[response'.result.value._id] = [name |-> n, password |-> w]
               ELSE response'.result = Null]_vars

C23_Witness ==
    /\ response.op = "authenticate_user"
    /\ response.result = Null
    /\ 1 \in DOMAIN users
    /\ users[1] = [name |-> "Alice", password |-> "pw2"]
    /\ nextUserId = 3
    /\ 2 \notin DOMAIN users

\* C24: in every execution the rating update of the cafe is attempted after
\* the review write and before the method returns, for create_review, for a
\* delete_review whose delete_one removed the review and for an update_review
\* of a stored review whose review_data has the key overall_rating; and it is
\* attempted in no other case.
C24_RecomputeAfterWrite ==
    [][\A p \in Procs :
         /\ (\E c \in CafeIds : create_review(p, c, 1, 4))
               => req'[p].pc = "recompute" /\ req'[p].id \in DOMAIN reviews'
         /\ (delete_review_write(p) /\ req[p].id \in DOMAIN reviews)
               => req'[p].pc = "recompute" /\ req[p].id \notin DOMAIN reviews'
         /\ (update_review_write(p) /\ req[p].id \in DOMAIN reviews
               /\ req[p].rating # NoRating)
               => /\ req'[p].pc = "recompute"
                  /\ reviews'[req[p].id].overall_rating = req[p].rating
         /\ (req[p].pc = "recompute" /\ req'[p].pc # "recompute")
               => recompute(p) /\ response'.op = req[p].op
         /\ (req[p].pc # "recompute" /\ req'[p].pc = "recompute")
               => \/ \E c \in CafeIds : create_review(p, c, 1, 4)
                  \/ delete_review_write(p) /\ req[p].id \in DOMAIN reviews
                  \/ /\ update_review_write(p)
                     /\ req[p].id \in DOMAIN reviews
                     /\ req[p].rating # NoRating]_vars

\* C25: in every reachable state the average_rating of every stored cafe is
\* an integer from 1 to 5.
C25_AverageRatingInRange ==
    \A c \in DOMAIN cafes : cafes[c].average_rating \in 1..5

\* C26: under every interleaving of create_bookmark with delete_cafe and
\* delete_user, the insert of a bookmark is made only while the user and the
\* cafe it names are in the store.
C26_InsertOnlyWhileReferencesExist ==
    [][\A p \in Procs :
         create_bookmark_insert(p)
         => /\ req[p].user_id \in DOMAIN users
            /\ req[p].cafe_id \in DOMAIN cafes]_vars

\* C27: when delete_bookmark_by_user_and_cafe returns True while no
\* create_bookmark of that pair is in flight, bookmark_exists is false for
\* the pair, also in the states that concurrent create_bookmark requests
\* have produced.
C27_DeletedPairNoLongerExists ==
    [][\A p \in Procs :
         (/\ delete_bookmark_by_user_and_cafe_delete(p)
          /\ response'.result = "True"
          /\ \A q \in Procs :
                ~(/\ req[q].op = "create_bookmark"
                  /\ req[q].user_id = req[p].user_id
                  /\ req[q].cafe_id = req[p].cafe_id))
         => ~bookmark_exists(bookmarks', req[p].user_id, req[p].cafe_id)]_vars

\* C28: of the concurrent delete_review (or delete_bookmark) requests for
\* one id, only the one whose delete_one removes the document goes on to
\* return True; a request that passed the existence check and finds the
\* document gone returns False and removes nothing; a removed id never
\* comes back, so the document is removed once.
C28_OneDeleteSucceeds ==
    [][\A p \in Procs :
         /\ delete_review_write(p)
               => IF req[p].id \in DOMAIN reviews
                  THEN /\ reviews' = delete_one(reviews, req[p].id)
                       /\ req'[p].pc = "recompute"
                       /\ \A q \in Procs \ {p} :
                             ~(/\ req[q].op = "delete_review"
                               /\ req[q].pc = "recompute"
                               /\ req[q].id = req[p].id)
                  ELSE /\ reviews' = reviews
                       /\ req'[p] = NoRequest
                       /\ response' = [op |-> "delete_review", result |-> "False"]
         /\ (recompute(p) /\ req[p].op = "delete_review")
               => response' = [op |-> "delete_review", result |-> "True"]
         /\ delete_bookmark_delete(p)
               => /\ req'[p] = NoRequest
                  /\ IF req[p].id \in DOMAIN bookmarks
                     THEN /\ bookmarks' = delete_one(bookmarks, req[p].id)
                          /\ response' = [op |-> "delete_bookmark", result |-> "True"]
                     ELSE /\ bookmarks' = bookmarks
                          /\ response' = [op |-> "delete_bookmark", result |-> "False"]
         /\ \A i \in ReviewIds :
               (i \notin DOMAIN reviews /\ i < nextReviewId) => i \notin DOMAIN reviews'
         /\ \A b \in BookmarkIds :
               (b \notin DOMAIN bookmarks /\ b < nextBookmarkId)
               => b \notin DOMAIN bookmarks']_vars

C28_Witness ==
    /\ reviews = << >>
    /\ \E p \in Procs, q \in Procs :
          /\ req[p].op = "delete_review"
          /\ req[p].pc = "recompute"
          /\ req[p].id = 1
          /\ req[q].op = "delete_review"
          /\ req[q].pc = "write"
          /\ req[q].id = 1

\* C29: get_cafe_photos of a cafe returns one entry for each photo of each
\* review of that cafe and no other entry, each with the photo's id, url and
\* caption, the id of its review and that review's user_id, the entries in
\* the order in which the photos were added (photo ids are assigned in that
\* order); the list is empty when the cafe has no review or no photo.
C29_CafePhotosChronological ==
    [][\A p \in Procs, c \in DOMAIN Catalogue :
         get_cafe_photos(p, c)
         => LET body == response'.result.body
                of_cafe == {r \in DOMAIN reviews : reviews[r].study_spot_id = c}
                embedded == {<<r, k>> : r \in of_cafe, k \in 1..MaxPhotos}
                photos == {e \in embedded : e[2] \in DOMAIN reviews[e[1]].photos}
            IN /\ response'.result.status_code = 200
               /\ Len(body) = Cardinality(photos)
               /\ \A e \in photos :
                     \E i \in DOMAIN body :
                        /\ body[i].id = reviews[e[1]].photos[e[2]]._id
                        /\ body[i].url = reviews[e[1]].photos[e[2]].url
                        /\ body[i].caption = reviews[e[1]].photos[e[2]].caption
                        /\ body[i].review_id = e[1]
                        /\ body[i].user_id = reviews[e[1]].user_id
               /\ \A i, j \in DOMAIN body : i < j => body[i].id < body[j].id]_vars

\* C30: check_bookmark_exists answers from the bookmarks alone: it is true
\* for a pair exactly when a bookmark of the pair is stored, delete_cafe and
\* delete_user leave it as it was, and a create_bookmark for a pair whose
\* user or cafe is gone ends with the 404 of the missing reference, not with
\* the 409 of the duplicate, also when a bookmark of the pair is stored.
C30_ExistsIgnoresReferences ==
    [][\A p \in Procs, u \in UserIds, c \in CafeIds :
         /\ check_bookmark_exists(p, u, c)
               => response'.result
                    = IF \E b \in DOMAIN bookmarks :
                            bookmarks[b].user_id = u /\ bookmarks[b].cafe_id = c
                      THEN "True" ELSE "False"
         /\ (delete_cafe(p, c) \/ delete_user(p, u)) => bookmarks' = bookmarks
         /\ (create_bookmark(p, u, c) /\ u \notin DOMAIN users)
               => /\ response' = [op |-> "create_bookmark", result |-> "404 User not found"]
                  /\ bookmarks' = bookmarks
         /\ (create_bookmark_get_cafe(p) /\ req[p].cafe_id \notin DOMAIN cafes)
               => /\ response' = [op |-> "create_bookmark", result |-> "404 Cafe not found"]
                  /\ bookmarks' = bookmarks]_vars

C30_Witness ==
    /\ response = [op |-> "check_bookmark_exists", result |-> "True"]
    /\ 1 \notin DOMAIN cafes
    /\ 1 \notin DOMAIN users
    /\ BookmarksOf(bookmarks, 1, 1) # {}

====
